---- MODULE Spec2Model ----
(***************************************************************************)
(* The vector store of DocumentSimilarity: the contract layer              *)
(* AbstractVectorDatabase (vectorstore/vectordb.py), the in-memory backend *)
(* SimpleVectorDatabase (vectorstore/simplevec.py), the Vector entity      *)
(* (models/vec.py), the three measures and the MeasureFactory.             *)
(*                                                                         *)
(* Python values are records with one shape: t is the type name, int the   *)
(* value of an int or of a UUID, vec_id / embedding / vector_dim the       *)
(* attributes of a Vector (embedding also holds the items of a list),      *)
(* chars the symbols of a str (the characters of an identifier's string,  *)
(* the one symbol of a measure's name).  A dict is the sequence of its     *)
(* items in insertion order.  The outcome of a call is a record: exc names the      *)
(* exception raised ("none" when the call returned), ret is <<>> for None  *)
(* and <<x>> for a returned x, data is the store after the call.           *)
(*                                                                         *)
(* SimpleVectorDatabase leaves get_random_vector abstract, so the class    *)
(* itself cannot be instantiated; the model is of an instance whose state  *)
(* is the one __init__ builds (as a subclass that adds nothing has it).    *)
(***************************************************************************)
EXTENDS Integers, Sequences, FiniteSets, TLC

VARIABLES data, vector_dim, MEASURES, last, upserted

vars == <<data, vector_dim, MEASURES, last, upserted>>

-----------------------------------------------------------------------------
(* Bounds of the model *)

\* embeddings have 1..MaxDim components
MaxDim == 2
\* bulk_upsert is given lists of at most MaxBulk elements
MaxBulk == 2
\* sim_search is asked for k in 1..MaxK
MaxK == 2
\* fit is given lists of at most MaxDocs documents
MaxDocs == 2
\* the stores of SpecTies hold at most MaxStore vectors
MaxStore == 7

\* number of digits of a UUID's string form (32 in CPython's uuid)
UuidDigits == 1
\* the digits of that string form (sixteen in CPython's uuid)
HexDigits == <<"0", "1">>
\* the separator uuid.UUID removes and a character that is no digit
OtherChars == {"-", "g"}

HexBase == Len(HexDigits)

RECURSIVE Pow(_, _)
Pow(b, n) == IF n = 0 THEN 1 ELSE b * Pow(b, n - 1)

\* the values uuid.uuid4() can return; they bound the size of the store
Ids == 0 .. (Pow(HexBase, UuidDigits) - 1)

Dims == 1 .. MaxDim

\* the values vector_dim is constructed with
DbDims == {1, 2}

\* the components of an embedding
Components == {0, 1}

Embeddings == UNION {[1 .. n -> Components] : n \in Dims}

Chars == {HexDigits[i] : i \in 1 .. HexBase} \cup OtherChars

Strings == UNION {[1 .. n -> Chars] : n \in 1 .. (UuidDigits + 1)}

-----------------------------------------------------------------------------
(* Python values *)

NoAttr == -1

PyObj(t, i, id, e, d, s) ==
    [t |-> t, int |-> i, vec_id |-> id, embedding |-> e, vector_dim |-> d,
     chars |-> s]

PyList(e) == PyObj("list", NoAttr, NoAttr, e, NoAttr, <<>>)

PyStr(s) == PyObj("str", NoAttr, NoAttr, <<>>, NoAttr, s)

PyInt(n) == PyObj("int", n, NoAttr, <<>>, NoAttr, <<>>)

PyUUID(i) == PyObj("UUID", i, NoAttr, <<>>, NoAttr, <<>>)

\* ArrayLike = Union[list, np.ndarray]
ArrayLike == {"list", "ndarray"}

isinstance(obj, types) == obj.t \in types

\* Vector.__init__ given an ArrayLike embedding; uuid4 is the value that
\* uuid.uuid4() returns; vector_dim = len(self.embedding)
Vector(embedding, uuid4) ==
    PyObj("Vector", NoAttr, uuid4, embedding, Len(embedding), <<>>)

\* what a call leaves behind
Outcome(exc, ret, d) == [exc |-> exc, ret |-> ret, data |-> d]

-----------------------------------------------------------------------------
(* dict: the items in insertion order *)

DictKeys(d) == {d[i].k : i \in 1 .. Len(d)}

DictIndex(d, k) == CHOOSE i \in 1 .. Len(d) : d[i].k = k

\* d.get(k, None)
DictGet(d, k) == IF k \in DictKeys(d) THEN <<d[DictIndex(d, k)].v>> ELSE <<>>

\* d[k] = v: an existing key keeps its position, a new key goes last
DictSet(d, k, v) ==
    IF k \in DictKeys(d)
    THEN [d EXCEPT ![DictIndex(d, k)] = [k |-> k, v |-> v]]
    ELSE Append(d, [k |-> k, v |-> v])

\* del d[k] for a key that is present
DictDel(d, k) ==
    LET i == DictIndex(d, k)
    IN  SubSeq(d, 1, i - 1) \o SubSeq(d, i + 1, Len(d))

\* list(d.values())
DictValues(d) == [i \in 1 .. Len(d) |-> d[i].v]

-----------------------------------------------------------------------------
(* uuid.UUID: the string form and its parsing *)

RECURSIVE HexOf(_, _)
\* the n-digit form of the integer i, most significant digit first
HexOf(i, n) ==
    IF n = 0 THEN <<>>
    ELSE Append(HexOf(i \div HexBase, n - 1), HexDigits[(i % HexBase) + 1])

\* str(uuid)
UUIDStr(i) == HexOf(i, UuidDigits)

RECURSIVE Replace(_, _)
\* s.replace(c, '')
Replace(s, c) ==
    IF s = <<>> THEN <<>>
    ELSE IF Head(s) = c THEN Replace(Tail(s), c)
    ELSE <<Head(s)>> \o Replace(Tail(s), c)

IsHexDigit(c) == \E i \in 1 .. HexBase : HexDigits[i] = c

DigitVal(c) == (CHOOSE i \in 1 .. HexBase : HexDigits[i] = c) - 1

RECURSIVE IntOf(_)
\* int(hex, 16) of a string of digits
IntOf(s) ==
    IF s = <<>> THEN 0
    ELSE IntOf(SubSeq(s, 1, Len(s) - 1)) * HexBase + DigitVal(s[Len(s)])

\* uuid.UUID(s): the separators are removed, then the length and the digits
\* are checked; both failures are ValueError
UUID(s) ==
    LET hex == Replace(s, "-")
    IN  IF Len(hex) # UuidDigits
        THEN [exc |-> "ValueError", ret |-> <<>>]
        ELSE IF \E i \in 1 .. Len(hex) : ~IsHexDigit(hex[i])
        THEN [exc |-> "ValueError", ret |-> <<>>]
        ELSE [exc |-> "none", ret |-> <<PyUUID(IntOf(hex))>>]

-----------------------------------------------------------------------------
(* SimpleVectorDatabase: the backend's primitives *)

\* a lookup that indexes the dict, so that a miss raises
_get_vector_indexing(d, vec_id) ==
    IF vec_id.int \in DictKeys(d) THEN Outcome("none", DictGet(d, vec_id.int), d)
    ELSE Outcome("KeyError", <<>>, d)

\* _get_vector: self.data.get(vec_id, None), a warning when None
_get_vector(d, vec_id) == Outcome("none", DictGet(d, vec_id.int), d)

\* an insert that does not compare the dimensions
_upsert_unchecked(d, dim, vector) ==
    IF ~isinstance(vector, {"Vector"}) THEN Outcome("AttributeError", <<>>, d)
    ELSE Outcome("none", <<>>, DictSet(d, vector.vec_id, vector))

\* an insert that writes before it compares the dimensions
_upsert_write_first(d, dim, vector) ==
    IF ~isinstance(vector, {"Vector"}) THEN Outcome("AttributeError", <<>>, d)
    ELSE IF vector.vector_dim # dim
    THEN Outcome("ValueError", <<>>, DictSet(d, vector.vec_id, vector))
    ELSE Outcome("none", <<>>, DictSet(d, vector.vec_id, vector))

\* an insert that leaves an identifier that is already stored as it is
_upsert_setdefault(d, dim, vector) ==
    IF ~isinstance(vector, {"Vector"}) THEN Outcome("AttributeError", <<>>, d)
    ELSE IF vector.vector_dim # dim THEN Outcome("ValueError", <<>>, d)
    ELSE IF vector.vec_id \in DictKeys(d) THEN Outcome("none", <<>>, d)
    ELSE Outcome("none", <<>>, DictSet(d, vector.vec_id, vector))

\* _upsert: reading vector.vector_dim fails on an object that is no Vector
_upsert(d, dim, vector) ==
    IF ~isinstance(vector, {"Vector"}) THEN Outcome("AttributeError", <<>>, d)
    ELSE IF vector.vector_dim # dim THEN Outcome("ValueError", <<>>, d)
    ELSE Outcome("none", <<>>, DictSet(d, vector.vec_id, vector))

\* _delete: del self.data[vector.vec_id]
_delete(d, vector) ==
    IF vector.vec_id \notin DictKeys(d) THEN Outcome("KeyError", <<>>, d)
    ELSE Outcome("none", <<>>, DictDel(d, vector.vec_id))

\* _get_random_vector: random_index is what random.randint returns
_get_random_vector(d, random_index) ==
    IF Len(d) = 0 THEN Outcome("ValueError", <<>>, d)
    ELSE Outcome("none", <<DictValues(d)[random_index + 1]>>, d)

-----------------------------------------------------------------------------
(* AbstractVectorDatabase: the public operations *)

\* get_random_vector: the abstract method, which no class overrides; its
\* body is pass
get_random_vector(d) == Outcome("none", <<>>, d)

\* a get_vector that does not parse a string
get_vector_unparsed(d, vec_id) ==
    IF ~isinstance(vec_id, {"UUID"}) THEN Outcome("TypeError", <<>>, d)
    ELSE _get_vector(d, vec_id)

get_vector(d, vec_id) ==
    LET parsed == IF isinstance(vec_id, {"str"}) THEN UUID(vec_id.chars)
                  ELSE [exc |-> "none", ret |-> <<vec_id>>]
    IN  IF parsed.exc # "none" THEN Outcome(parsed.exc, <<>>, d)
        ELSE IF ~isinstance(parsed.ret[1], {"UUID"})
        THEN Outcome("TypeError", <<>>, d)
        ELSE _get_vector(d, parsed.ret[1])

upsert(d, dim, vector, uuid4) ==
    LET v == IF isinstance(vector, ArrayLike)
             THEN Vector(vector.embedding, uuid4) ELSE vector
    IN  IF ~isinstance(v, {"Vector"}) THEN Outcome("TypeError", <<>>, d)
        ELSE _upsert(d, dim, v)

RECURSIVE UpsertEach(_, _, _)
\* for vector in vectors: self._upsert(vector), stopping at the first raise
UpsertEach(d, dim, vectors) ==
    IF vectors = <<>> THEN Outcome("none", <<>>, d)
    ELSE LET o == _upsert(d, dim, Head(vectors))
         IN  IF o.exc # "none" THEN o
             ELSE UpsertEach(o.data, dim, Tail(vectors))

\* bulk_upsert: the first loop rebinds its loop variable only, so the second
\* loop hands _upsert the elements of the list as they were given
bulk_upsert(d, dim, vectors) ==
    IF ~isinstance(vectors, {"list"}) THEN Outcome("TypeError", <<>>, d)
    ELSE IF \E i \in 1 .. Len(vectors.embedding) :
                ~isinstance(vectors.embedding[i], ArrayLike \cup {"Vector"})
    THEN Outcome("TypeError", <<>>, d)
    ELSE UpsertEach(d, dim, vectors.embedding)

\* delete: the local `vector` is bound only for a UUID, a str or a Vector
delete(d, vector_or_id) ==
    LET looked == IF isinstance(vector_or_id, {"UUID", "str"})
                  THEN get_vector(d, vector_or_id)
                  ELSE Outcome("none", <<>>, d)
        bound  == isinstance(vector_or_id, {"UUID", "str", "Vector"})
        vector == IF isinstance(vector_or_id, {"Vector"})
                  THEN <<vector_or_id>> ELSE looked.ret
    IN  IF looked.exc # "none" THEN looked
        ELSE IF ~bound THEN Outcome("UnboundLocalError", <<>>, d)
        ELSE IF vector = <<>> THEN Outcome("none", <<>>, d)
        ELSE IF ~isinstance(vector[1], {"Vector"})
        THEN Outcome("TypeError", <<>>, d)
        ELSE _delete(d, vector[1])

-----------------------------------------------------------------------------
(* Scores.  A score is a real number x kept exactly as the signed square    *)
(* sgn(x) * x^2 = sq / den (den > 0), or the float nan that a division of  *)
(* zero by zero yields.  Rounding of floats is not modelled.               *)

Real(sq, den) == [nan |-> FALSE, sq |-> sq, den |-> den]

NaN == [nan |-> TRUE, sq |-> 0, den |-> 0]

Sgn(n) == IF n < 0 THEN -1 ELSE IF n > 0 THEN 1 ELSE 0

\* x < y on floats: every comparison with nan is False
Lt(x, y) == ~x.nan /\ ~y.nan /\ x.sq * y.den < y.sq * x.den

\* -x
Neg(x) == [x EXCEPT !.sq = -x.sq]

RECURSIVE SumSeq(_)
SumSeq(s) == IF s = <<>> THEN 0 ELSE Head(s) + SumSeq(Tail(s))

\* a.dot(b) on one-dimensional arrays: the lengths must agree
np_dot(a, b) ==
    IF Len(a) # Len(b) THEN [exc |-> "ValueError", val |-> 0]
    ELSE [exc |-> "none", val |-> SumSeq([i \in 1 .. Len(a) |-> a[i] * b[i]])]

\* a - b on one-dimensional arrays: an array of length 1 is broadcast
np_sub(a, b) ==
    IF Len(a) = Len(b)
    THEN [exc |-> "none", val |-> [i \in 1 .. Len(a) |-> a[i] - b[i]]]
    ELSE IF Len(a) = 1
    THEN [exc |-> "none", val |-> [i \in 1 .. Len(b) |-> a[1] - b[i]]]
    ELSE IF Len(b) = 1
    THEN [exc |-> "none", val |-> [i \in 1 .. Len(a) |-> a[i] - b[1]]]
    ELSE [exc |-> "ValueError", val |-> <<>>]

SqNorm(a) == SumSeq([i \in 1 .. Len(a) |-> a[i] * a[i]])

\* Vector.norm / np.linalg.norm
norm(a) == Real(SqNorm(a), 1)

-----------------------------------------------------------------------------
(* The measures *)

AbstractMeasure == {"EuclideanDistance", "DotProductDistance", "CosineSimilarity"}

\* an instance of a measure class; int is the object's identity
Measure(cls, identity) == PyObj(cls, identity, NoAttr, <<>>, NoAttr, <<>>)

EuclideanDistance_calculate(vec1, vec2) ==
    LET diff == np_sub(vec1.embedding, vec2.embedding)
    IN  IF diff.exc # "none" THEN [exc |-> diff.exc, score |-> NaN]
        ELSE [exc |-> "none", score |-> norm(diff.val)]

DotProductDistance_calculate(vec1, vec2) ==
    LET dot == np_dot(vec1.embedding, vec2.embedding)
    IN  IF dot.exc # "none" THEN [exc |-> dot.exc, score |-> NaN]
        ELSE [exc |-> "none", score |-> Real(Sgn(dot.val) * dot.val * dot.val, 1)]

\* vec1.dot(vec2) / (vec1.norm() * vec2.norm()): numpy divides zero by a
\* zero float to nan (with a warning, no exception)
CosineSimilarity_calculate(vec1, vec2) ==
    LET dot == np_dot(vec1.embedding, vec2.embedding)
        den == SqNorm(vec1.embedding) * SqNorm(vec2.embedding)
    IN  IF dot.exc # "none" THEN [exc |-> dot.exc, score |-> NaN]
        ELSE IF den = 0 THEN [exc |-> "none", score |-> NaN]
        ELSE [exc |-> "none", score |-> Real(Sgn(dot.val) * dot.val * dot.val, den)]

calculate(measure, vec1, vec2) ==
    CASE measure.t = "EuclideanDistance" -> EuclideanDistance_calculate(vec1, vec2)
      [] measure.t = "DotProductDistance" -> DotProductDistance_calculate(vec1, vec2)
      [] measure.t = "CosineSimilarity" -> CosineSimilarity_calculate(vec1, vec2)

\* a sort key that is the negated score for every measure
sort_func_negating(measure, x) == Neg(x)

sort_func(measure, x) ==
    IF measure.t = "EuclideanDistance" THEN x ELSE Neg(x)

-----------------------------------------------------------------------------
(* MeasureFactory *)

\* the class attribute MEASURES as the class body builds it
MeasureFactory_MEASURES ==
    << [k |-> <<"euclidean">>, v |-> Measure("EuclideanDistance", 1)],
       [k |-> <<"dot">>, v |-> Measure("DotProductDistance", 2)],
       [k |-> <<"cosine">>, v |-> Measure("CosineSimilarity", 3)] >>

\* a factory that builds the measure anew at each call
get_measure_building(M, name) ==
    LET measure == DictGet(M, name)
    IN  IF measure = <<>>
        THEN [exc |-> "ValueError", ret |-> <<>>, M |-> M,
              msg |-> [name |-> name, keys |-> [i \in 1 .. Len(M) |-> M[i].k]]]
        ELSE [exc |-> "none", ret |-> <<Measure(measure[1].t, Len(M) + 1)>>, M |-> M,
              msg |-> [name |-> <<>>, keys |-> <<>>]]

\* get_measure: msg is what the error message is built from
get_measure(M, name) ==
    LET measure == DictGet(M, name)
    IN  IF measure = <<>>
        THEN [exc |-> "ValueError", ret |-> <<>>, M |-> M,
              msg |-> [name |-> name, keys |-> [i \in 1 .. Len(M) |-> M[i].k]]]
        ELSE [exc |-> "none", ret |-> measure, M |-> M,
              msg |-> [name |-> <<>>, keys |-> <<>>]]

-----------------------------------------------------------------------------
(* sorted(): CPython's list.sort on a list shorter than 64 items: the      *)
(* leading run is found (a strictly descending one is reversed), then the  *)
(* other items are placed by binary insertion; only < is ever asked.       *)

RECURSIVE RunEnd(_, _, _)
\* the last index of the run of s that starts at 1 and has reached i
RunEnd(s, i, descending) ==
    IF i = Len(s) THEN i
    ELSE IF Lt(s[i + 1].key, s[i].key) = descending
    THEN RunEnd(s, i + 1, descending)
    ELSE i

Reverse(s) == [i \in 1 .. Len(s) |-> s[Len(s) + 1 - i]]

RECURSIVE Bisect(_, _, _, _)
\* the number of items of the sorted s that pivot goes behind
Bisect(s, pivot, l, r) ==
    IF l >= r THEN l
    ELSE LET p == l + ((r - l) \div 2)
         IN  IF Lt(pivot.key, s[p + 1].key) THEN Bisect(s, pivot, l, p)
             ELSE Bisect(s, pivot, p + 1, r)

RECURSIVE BinarySort(_, _)
BinarySort(done, rest) ==
    IF rest = <<>> THEN done
    ELSE LET l == Bisect(done, Head(rest), 0, Len(done))
         IN  BinarySort(SubSeq(done, 1, l) \o <<Head(rest)>>
                            \o SubSeq(done, l + 1, Len(done)),
                        Tail(rest))

sorted(s) ==
    IF Len(s) < 2 THEN s
    ELSE LET descending == Lt(s[2].key, s[1].key)
             n   == RunEnd(s, 2, descending)
             run == IF descending THEN Reverse(SubSeq(s, 1, n))
                    ELSE SubSeq(s, 1, n)
         IN  BinarySort(run, SubSeq(s, n + 1, Len(s)))

-----------------------------------------------------------------------------
(* sim_search *)

RECURSIVE Scan(_, _, _, _)
\* the loop of _sim_search over self.data.values(): similar[vec.vec_id] = ...
Scan(values, vector, measure, similar) ==
    IF values = <<>> THEN [exc |-> "none", similar |-> similar]
    ELSE LET c == calculate(measure, vector, Head(values))
         IN  IF c.exc # "none" THEN [exc |-> c.exc, similar |-> similar]
             ELSE Scan(Tail(values), vector, measure,
                       DictSet(similar, Head(values).vec_id,
                               [vector |-> Head(values), score |-> c.score]))

\* s[:k] for k >= 0
Slice(s, k) == SubSeq(s, 1, IF k < Len(s) THEN k ELSE Len(s))

_sim_search(d, vector, measure, k) ==
    LET scan == Scan(DictValues(d), vector, measure, <<>>)
        keyed == [i \in 1 .. Len(scan.similar) |->
                    [key |-> sort_func(measure, scan.similar[i].v.score),
                     item |-> scan.similar[i].v]]
        similar_vectors == sorted(keyed)
    IN  IF scan.exc # "none" THEN Outcome(scan.exc, <<>>, d)
        ELSE Outcome("none",
                     [i \in 1 .. Len(Slice(similar_vectors, k)) |->
                        similar_vectors[i].item],
                     d)

sim_search(d, M, vector, measure, k, uuid4) ==
    LET v == IF isinstance(vector, ArrayLike)
             THEN Vector(vector.embedding, uuid4) ELSE vector
        looked == IF isinstance(measure, {"str"}) THEN get_measure(M, measure.chars)
                  ELSE [exc |-> "none", ret |-> <<measure>>]
    IN  IF ~isinstance(v, {"Vector"}) THEN Outcome("TypeError", <<>>, d)
        ELSE IF looked.exc # "none" THEN Outcome(looked.exc, <<>>, d)
        ELSE IF ~isinstance(looked.ret[1], AbstractMeasure)
        THEN Outcome("TypeError", <<>>, d)
        ELSE _sim_search(d, v, looked.ret[1], k)

-----------------------------------------------------------------------------
(* AbstractEmbedder and the concrete subclass of its tests.  A TextDoc     *)
(* keeps its body in chars, a TextDocEmbedded in embedding.  The outcome   *)
(* of a call also lists the arguments that the subclass's hook was called  *)
(* with.                                                                   *)

TextDoc(body) == PyObj("TextDoc", NoAttr, NoAttr, <<>>, NoAttr, body)

TextDocEmbedded(body) == PyObj("TextDocEmbedded", NoAttr, NoAttr, body, NoAttr, <<>>)

PyFloat(x) == PyObj("float", x, NoAttr, <<>>, NoAttr, <<>>)

\* TextLike = Union[str, TextDoc]
TextLike == {"str", "TextDoc"}

EmbedderOutcome(exc, ret, hook) == [exc |-> exc, ret |-> ret, hook |-> hook]

\* TestAbstractEmbedder._fit: return docs
TestAbstractEmbedder_fit(docs) == docs

\* TestAbstractEmbedder._decode: return doc
TestAbstractEmbedder_decode(doc) == doc

\* check_text_like, the function local to fit
check_text_like(doc) ==
    IF isinstance(doc, {"list"}) THEN [exc |-> "TypeError", ret |-> <<>>]
    ELSE IF isinstance(doc, {"str"})
    THEN [exc |-> "none", ret |-> <<TextDoc(doc.chars)>>]
    ELSE IF ~isinstance(doc, {"TextDoc"}) THEN [exc |-> "TypeError", ret |-> <<>>]
    ELSE [exc |-> "none", ret |-> <<doc>>]

\* a fit that checks every document and hands _fit the list as it was given
fit_rebinding(docs) ==
    IF ~isinstance(docs, {"list"}) THEN EmbedderOutcome("TypeError", <<>>, <<>>)
    ELSE IF \E i \in 1 .. Len(docs.embedding) :
                check_text_like(docs.embedding[i]).exc # "none"
    THEN EmbedderOutcome("TypeError", <<>>, <<>>)
    ELSE EmbedderOutcome("none", <<TestAbstractEmbedder_fit(docs)>>, <<docs>>)

\* fit: the list comprehension is complete before _fit is called
fit(docs) ==
    IF ~isinstance(docs, {"list"}) THEN EmbedderOutcome("TypeError", <<>>, <<>>)
    ELSE IF \E i \in 1 .. Len(docs.embedding) :
                check_text_like(docs.embedding[i]).exc # "none"
    THEN EmbedderOutcome("TypeError", <<>>, <<>>)
    ELSE LET checked == PyList([i \in 1 .. Len(docs.embedding) |->
                                   check_text_like(docs.embedding[i]).ret[1]])
         IN  EmbedderOutcome("none", <<TestAbstractEmbedder_fit(checked)>>,
                             <<checked>>)

\* decode: neither AbstractEmbedder nor the subclass of the tests defines an
\* attribute of that name (the subclass defines _decode only), so the
\* attribute lookup fails before anything is called
decode(doc) == EmbedderOutcome("AttributeError", <<>>, <<>>)

-----------------------------------------------------------------------------
(* The arguments the operations are called with *)

Vectors == {Vector(e, i) : e \in Embeddings, i \in Ids}

Lists == {PyList(e) : e \in Embeddings}

UUIDs == {PyUUID(i) : i \in Ids}

Strs == {PyStr(s) : s \in Strings}

\* objects of types that no operation accepts
Others == {PyInt(5)}

MeasureNames == {<<"euclidean">>, <<"dot">>, <<"cosine">>, <<"manhattan">>}

Ones(n) == [i \in 1 .. n |-> 1]

\* a length other than dim
OtherDim(dim) == (dim % MaxDim) + 1

\* the elements of the lists given to bulk_upsert on a database of dimension
\* dim: a Vector of that dimension under each identifier, a Vector of
\* another dimension, a raw list of that dimension, an object of another type
BulkElems(dim) ==
    {Vector(Ones(dim), i) : i \in Ids}
        \cup {Vector(Ones(OtherDim(dim)), 0), PyList(Ones(dim))} \cup Others

BulkLists(dim) == UNION {[1 .. n -> BulkElems(dim)] : n \in 0 .. MaxBulk}

\* the raw lists given to sim_search on a database of dimension dim: every
\* embedding of that dimension and one of another dimension
QueryLists(dim) ==
    {PyList(e) : e \in {x \in Embeddings : Len(x) = dim} \cup {Ones(OtherDim(dim))}}

\* the identifier an argument of get_vector or delete names, NoAttr if none
TargetId(obj) ==
    IF isinstance(obj, {"Vector"}) THEN obj.vec_id
    ELSE IF isinstance(obj, {"UUID"}) THEN obj.int
    ELSE IF isinstance(obj, {"str"}) /\ UUID(obj.chars).exc = "none"
    THEN UUID(obj.chars).ret[1].int
    ELSE NoAttr

StoredVectors == {data[i].v : i \in 1 .. Len(data)}

\* a call as the caller sees it
Call(op, form, o, arg) ==
    [op |-> op, form |-> form, exc |-> o.exc, ret |-> o.ret, arg |-> arg]

NoEmbedding == <<>>

-----------------------------------------------------------------------------
(* The state machine *)

Init ==
    /\ data = <<>>
    /\ vector_dim \in DbDims
    /\ MEASURES = MeasureFactory_MEASURES
    /\ last = Call("__init__", "int", Outcome("none", <<>>, <<>>), [dim |-> vector_dim])
    /\ upserted = [i \in Ids |-> NoEmbedding]

\* upsert(vector); uuid4 is drawn when the argument is wrapped into a Vector
Upsert ==
    \E vector \in Vectors \cup Lists \cup Others \cup {PyStr(<<"0">>)} :
        \E uuid4 \in IF isinstance(vector, ArrayLike) THEN Ids \ DictKeys(data) ELSE {NoAttr} :
            LET o == upsert(data, vector_dim, vector, uuid4)
                id == IF isinstance(vector, ArrayLike) THEN uuid4 ELSE vector.vec_id
            IN  /\ data' = o.data
                /\ last' = Call("upsert", vector.t, o,
                                [dim |-> Len(vector.embedding), id |-> id])
                /\ upserted' = IF o.exc = "none"
                               THEN [upserted EXCEPT ![id] = vector.embedding]
                               ELSE upserted
                /\ UNCHANGED <<vector_dim, MEASURES>>

\* the elements of a list that the contract has bulk_upsert reject
InvalidElems(vectors) ==
    {i \in 1 .. Len(vectors) :
        \/ ~isinstance(vectors[i], ArrayLike \cup {"Vector"})
        \/ Len(vectors[i].embedding) # vector_dim}

BulkUpsert ==
    \E vectors \in {PyList(l) : l \in BulkLists(vector_dim)} \cup Others :
        LET o == bulk_upsert(data, vector_dim, vectors)
            elems == IF isinstance(vectors, {"list"}) THEN vectors.embedding ELSE <<>>
            ids == {elems[i].vec_id : i \in {j \in 1 .. Len(elems) : elems[j].t = "Vector"}}
            lastOf(id) == CHOOSE i \in 1 .. Len(elems) :
                            /\ elems[i].vec_id = id
                            /\ \A j \in (i + 1) .. Len(elems) : elems[j].vec_id # id
        IN  /\ data' = o.data
            /\ last' = Call("bulk_upsert", vectors.t, o,
                            [len |-> Len(elems),
                             invalid |-> InvalidElems(elems) # {},
                             badtype |-> \E i \in 1 .. Len(elems) :
                                 ~isinstance(elems[i], ArrayLike \cup {"Vector"}),
                             raw |-> \E i \in 1 .. Len(elems) : elems[i].t \in ArrayLike])
            /\ upserted' = [i \in Ids |->
                              IF i \notin ids THEN upserted[i]
                              ELSE IF o.exc = "none" THEN elems[lastOf(i)].embedding
                              ELSE NoEmbedding]
            /\ UNCHANGED <<vector_dim, MEASURES>>

\* delete(vector_or_id): a Vector is looked at for its vec_id only
Delete ==
    \E vector_or_id \in {Vector(Ones(vector_dim), i) : i \in Ids} \cup StoredVectors
                           \cup UUIDs \cup Strs \cup Others :
        LET o == delete(data, vector_or_id)
            id == TargetId(vector_or_id)
        IN  /\ data' = o.data
            /\ last' = Call("delete", vector_or_id.t, o,
                            [wellformed |-> id \in Ids, stored |-> id \in DictKeys(data)])
            /\ upserted' = IF o.exc = "none" /\ id \in Ids
                           THEN [upserted EXCEPT ![id] = NoEmbedding]
                           ELSE upserted
            /\ UNCHANGED <<vector_dim, MEASURES>>

GetVector ==
    \E vec_id \in UUIDs \cup Strs \cup Others :
        LET o == get_vector(data, vec_id)
            id == TargetId(vec_id)
        IN  /\ data' = o.data
            /\ last' = Call("get_vector", vec_id.t, o,
                            [wellformed |-> id \in Ids, stored |-> id \in DictKeys(data)])
            /\ UNCHANGED <<vector_dim, MEASURES, upserted>>

GetRandomVector ==
    LET o == get_random_vector(data)
    IN  /\ data' = o.data
        /\ last' = Call("get_random_vector", "none", o, [n |-> Len(data)])
        /\ UNCHANGED <<vector_dim, MEASURES, upserted>>

\* the backend's own draw, which no public operation calls
PrivateGetRandomVector ==
    \E random_index \in 0 .. (IF Len(data) = 0 THEN 0 ELSE Len(data) - 1) :
        LET o == _get_random_vector(data, random_index)
        IN  /\ data' = o.data
            /\ last' = Call("_get_random_vector", "none", o, [n |-> Len(data)])
            /\ UNCHANGED <<vector_dim, MEASURES, upserted>>

GetMeasure ==
    \E name \in MeasureNames :
        LET o == get_measure(MEASURES, name)
        IN  /\ MEASURES' = o.M
            /\ last' = Call("get_measure", "str", o, [name |-> name, msg |-> o.msg])
            /\ UNCHANGED <<data, vector_dim, upserted>>

\* sim_search(vector, measure, k): the query is a raw list, a stored Vector
\* or an object of another type; the measure a name, an instance of the
\* registry or an object of another type.  The identifier that a wrapped
\* query is given is never read.
SimSearch ==
    \E vector \in QueryLists(vector_dim) \cup StoredVectors \cup Others,
       measure \in {PyStr(n) : n \in MeasureNames}
                     \cup {MEASURES[i].v : i \in 1 .. Len(MEASURES)} \cup Others,
       k \in 1 .. MaxK :
        LET o == sim_search(data, MEASURES, vector, measure, k, NoAttr)
            m == IF isinstance(measure, {"str"})
                 THEN get_measure(MEASURES, measure.chars).ret ELSE <<measure>>
        IN  /\ data' = o.data
            /\ last' = Call("sim_search", vector.t, o,
                            [q |-> vector.embedding, qid |-> vector.vec_id,
                             mform |-> measure.t, measure |-> m, k |-> k])
            /\ UNCHANGED <<vector_dim, MEASURES, upserted>>

\* the store and its lookups
Next ==
    \/ Upsert
    \/ BulkUpsert
    \/ Delete
    \/ GetVector
    \/ GetRandomVector
    \/ PrivateGetRandomVector

Spec == Init /\ [][Next]_vars

\* the store and its searches
NextSearch ==
    \/ Upsert
    \/ Delete
    \/ SimSearch
    \/ GetMeasure

SpecSearch == Init /\ [][NextSearch]_vars

\* the identifiers of the vectors of the larger stores: uuid4 returns them
\* in this order, the least one that is not in use first
StoreIds == 0 .. (MaxStore - 1)

FreshId(d) ==
    CHOOSE i \in StoreIds \ DictKeys(d) : \A j \in StoreIds \ DictKeys(d) : i <= j

\* the embeddings of the larger stores: the zero vector, the first unit
\* vector and the vector of ones
TieEmbeddings(dim) ==
    {[i \in 1 .. dim |-> 0], [i \in 1 .. dim |-> IF i = 1 THEN 1 ELSE 0], Ones(dim)}

InitTies ==
    /\ data = <<>>
    /\ vector_dim \in DbDims
    /\ MEASURES = MeasureFactory_MEASURES
    /\ last = Call("__init__", "int", Outcome("none", <<>>, <<>>), [dim |-> vector_dim])
    /\ upserted = [i \in StoreIds |-> NoEmbedding]

\* upsert of a Vector of the database's dimension: one that has just been
\* constructed, while there is room, or one under a stored identifier
TieUpsert ==
    \E embedding \in TieEmbeddings(vector_dim),
       id \in DictKeys(data) \cup (IF Len(data) < MaxStore THEN {FreshId(data)} ELSE {}) :
        LET o == upsert(data, vector_dim, Vector(embedding, id), NoAttr)
        IN  /\ data' = o.data
            /\ last' = Call("upsert", "Vector", o, [dim |-> Len(embedding), id |-> id])
            /\ upserted' = IF o.exc = "none"
                           THEN [upserted EXCEPT ![id] = embedding] ELSE upserted
            /\ UNCHANGED <<vector_dim, MEASURES>>

\* delete of the stored Vector that was inserted last
TieDelete ==
    /\ Len(data) > 0
    /\ LET vector == data[Len(data)].v
           o == delete(data, vector)
       IN  /\ data' = o.data
           /\ last' = Call("delete", "Vector", o, [wellformed |-> TRUE, stored |-> TRUE])
           /\ upserted' = IF o.exc = "none"
                          THEN [upserted EXCEPT ![vector.vec_id] = NoEmbedding]
                          ELSE upserted
           /\ UNCHANGED <<vector_dim, MEASURES>>

\* sim_search of the raw list of ones by the name of a measure, for a few or
\* for all stored vectors
TieSimSearch ==
    \E name \in {<<"euclidean">>, <<"cosine">>}, k \in {MaxK, MaxStore} :
        LET embedding == Ones(vector_dim)
            o == sim_search(data, MEASURES, PyList(embedding), PyStr(name), k, NoAttr)
        IN  /\ data' = o.data
            /\ last' = Call("sim_search", "list", o,
                            [q |-> embedding, qid |-> NoAttr, mform |-> "str",
                             measure |-> get_measure(MEASURES, name).ret, k |-> k])
            /\ UNCHANGED <<vector_dim, MEASURES, upserted>>

\* the larger stores and their searches
NextTies ==
    \/ TieUpsert
    \/ TieDelete
    \/ TieSimSearch

SpecTies == InitTies /\ [][NextTies]_vars

\* the documents of the lists given to fit: strings, TextDocs, a number, an
\* object of another type and a nested list
DocElems ==
    {PyStr(<<"ABC">>), PyStr(<<"DEF">>), TextDoc(<<"ABC">>), TextDoc(<<"DEF">>),
     PyFloat(1), PyList(<<>>)} \cup Others

DocLists == UNION {[1 .. n -> DocElems] : n \in 0 .. MaxDocs}

\* the arguments of the tests of decode
DecodeArgs ==
    {TextDocEmbedded(<<1, 1, 1>>), TextDoc(<<"ABC">>), PyList(<<1, 1, 1, 1>>),
     PyStr(<<"sdfs">>), PyFloat(1),
     PyList(<<TextDoc(<<"ABC">>), TextDoc(<<"DEF">>)>>),
     PyList(<<PyInt(1), PyStr(<<"ABC">>)>>)}

\* test_embedder.fit(docs)
Fit ==
    \E docs \in {PyList(l) : l \in DocLists}
                   \cup {PyStr(<<"ABC">>), TextDoc(<<"ABC">>), PyFloat(1)} :
        LET o == fit(docs)
        IN  /\ last' = Call("fit", docs.t, o, [docs |-> docs, hook |-> o.hook])
            /\ UNCHANGED <<data, vector_dim, MEASURES, upserted>>

\* test_embedder.decode(doc)
Decode ==
    \E doc \in DecodeArgs :
        LET o == decode(doc)
        IN  /\ last' = Call("decode", doc.t, o, [docs |-> doc, hook |-> o.hook])
            /\ UNCHANGED <<data, vector_dim, MEASURES, upserted>>

\* the embedder
NextEmbed ==
    \/ Fit
    \/ Decode

SpecEmbed == Init /\ [][NextEmbed]_vars

-----------------------------------------------------------------------------
(* Properties *)

\* C1: every Vector held in the store has the vector_dim the database was
\* constructed with, whatever upserts, bulk upserts and deletes, failing
\* ones included, have been made.
C1_StoredDimension ==
    \A i \in 1 .. Len(data) :
        /\ data[i].v.vector_dim = vector_dim
        /\ Len(data[i].v.embedding) = vector_dim

\* a bulk_upsert has failed on a Vector of another dimension after it had
\* stored the Vectors before it
C1_Witness ==
    /\ last.op = "bulk_upsert"
    /\ last.exc = "ValueError"
    /\ Len(data) > 0

\* C2: an upsert of a Vector or of a raw sequence whose length is not the
\* database's vector_dim raises the dimension error (ValueError) and leaves
\* the store as it was.
C2_MismatchedUpsert ==
    [][(/\ last'.op = "upsert"
        /\ last'.form \in {"Vector", "list"}
        /\ last'.arg.dim # vector_dim)
       => (last'.exc = "ValueError" /\ data' = data)]_vars

\* a raw list of another length has been refused by a store that holds a
\* vector
C2_Witness ==
    /\ last.op = "upsert"
    /\ last.form = "list"
    /\ last.arg.dim # vector_dim
    /\ last.exc = "ValueError"
    /\ Len(data) > 0

\* C3 (as claimed): a bulk_upsert of a list with an invalid element (of a
\* type that is neither Vector nor raw sequence, or of another dimension),
\* at whatever position, fails and leaves the store as it was.
C3_BulkAllOrNothing ==
    [][(/\ last'.op = "bulk_upsert"
        /\ last'.form = "list"
        /\ last'.arg.invalid)
       => (last'.exc # "none" /\ data' = data)]_vars

\* C4 (as claimed): a delete of a target that is not stored, given as a
\* Vector, an identifier or the string form of an identifier, returns
\* without raising and leaves the store as it was.
C4_DeleteAbsent ==
    [][(/\ last'.op = "delete"
        /\ last'.form \in {"Vector", "UUID", "str"}
        /\ last'.arg.wellformed
        /\ ~last'.arg.stored)
       => (last'.exc = "none" /\ data' = data)]_vars

\* C5: from a successful upsert of a vector under an identifier until the
\* next delete or upsert of that identifier, get_vector of the identifier
\* and of its string form return a vector with the upserted embedding.
C5_UpsertThenGet ==
    \A id \in Ids :
        upserted[id] # NoEmbedding =>
            \A vec_id \in {PyUUID(id), PyStr(UUIDStr(id))} :
                LET o == get_vector(data, vec_id)
                IN  /\ o.exc = "none"
                    /\ o.ret # <<>>
                    /\ o.ret[1].embedding = upserted[id]

\* an identifier has been upserted twice with different embeddings and
\* then looked up by its string form
C5_Witness ==
    /\ last.op = "get_vector"
    /\ last.form = "str"
    /\ last.exc = "none"
    /\ last.ret # <<>>
    /\ upserted[last.ret[1].vec_id] = last.ret[1].embedding
    /\ Len(data) = 2

\* x <= y on floats
Le(x, y) == ~x.nan /\ ~y.nan /\ x.sq * y.den <= y.sq * x.den

\* the sort key of a stored vector for the query of the last sim_search
KeyOf(vec) ==
    sort_func(last.arg.measure[1],
              calculate(last.arg.measure[1], Vector(last.arg.q, NoAttr), vec).score)

\* C6 (as claimed): on a store of n vectors a sim_search with k >= 1
\* returns min(k, n) stored vectors, each with its score against the query,
\* in non-decreasing order of the sort key, and no vector left out has a
\* sort key strictly smaller than a returned one.
C6_SimSearchSortedPrefix ==
    (/\ last.op = "sim_search"
     /\ last.form \in {"Vector", "list"}
     /\ Len(last.arg.q) = vector_dim
     /\ last.arg.measure # <<>>
     /\ isinstance(last.arg.measure[1], AbstractMeasure))
    => /\ last.exc = "none"
       /\ Len(last.ret) = (IF last.arg.k < Len(data) THEN last.arg.k ELSE Len(data))
       /\ \A i \in 1 .. Len(last.ret) :
            /\ last.ret[i].vector \in StoredVectors
            /\ last.ret[i].score =
                 calculate(last.arg.measure[1], Vector(last.arg.q, NoAttr),
                           last.ret[i].vector).score
       /\ \A i, j \in 1 .. Len(last.ret) :
            i # j => last.ret[i].vector # last.ret[j].vector
       /\ \A i \in 1 .. (Len(last.ret) - 1) :
            Le(KeyOf(last.ret[i].vector), KeyOf(last.ret[i + 1].vector))
       /\ \A vec \in StoredVectors \ {last.ret[i].vector : i \in 1 .. Len(last.ret)} :
            \A i \in 1 .. Len(last.ret) :
                ~Lt(KeyOf(vec), KeyOf(last.ret[i].vector))

\* C7 (as claimed): get_random_vector raises the empty-database error
\* (ValueError) on a store that holds nothing and returns a stored vector
\* otherwise; it never returns None.
C7_GetRandomVector ==
    last.op = "get_random_vector" =>
        IF last.arg.n = 0 THEN last.exc = "ValueError"
        ELSE /\ last.exc = "none"
             /\ last.ret # <<>>
             /\ last.ret[1] \in StoredVectors

\* C8 (as claimed): a public operation given an argument of a type it does
\* not accept raises TypeError, and nothing else, and leaves the store as
\* it was.
C8_WrongTypeIsTypeError ==
    [][(\/ last'.op = "get_vector" /\ last'.form \notin {"UUID", "str"}
        \/ last'.op = "upsert" /\ last'.form \notin {"Vector", "list"}
        \/ last'.op = "bulk_upsert" /\ (last'.form # "list" \/ last'.arg.badtype)
        \/ last'.op = "delete" /\ last'.form \notin {"Vector", "UUID", "str"}
        \/ last'.op = "sim_search"
             /\ (\/ last'.form \notin {"Vector", "list"}
                 \/ last'.arg.mform \notin AbstractMeasure \cup {"str"}))
       => (last'.exc = "TypeError" /\ data' = data)]_vars

\* C9 (as claimed): get_vector of an identifier, or of a string given as an
\* identifier, that resolves to no stored vector returns None without
\* raising and leaves the store as it was.
C9_GetVectorMiss ==
    [][(/\ last'.op = "get_vector"
        /\ last'.form \in {"UUID", "str"}
        /\ ~last'.arg.stored)
       => (last'.exc = "none" /\ last'.ret = <<>> /\ data' = data)]_vars

\* C9 (amended): get_vector of an identifier, or of a string that is the
\* string form of an identifier, that resolves to no stored vector returns
\* None without raising; a string that is not the string form of any
\* identifier raises ValueError; the store is as it was in both cases.
C9_GetVectorMissWellFormed ==
    [][(/\ last'.op = "get_vector"
        /\ last'.form \in {"UUID", "str"}
        /\ ~last'.arg.stored)
       => /\ data' = data
          /\ last'.ret = <<>>
          /\ last'.exc = (IF last'.arg.wellformed THEN "none" ELSE "ValueError")]_vars

\* the string form of an identifier that is not stored has been looked up
\* in a store that holds a vector
C9_Witness ==
    /\ last.op = "get_vector"
    /\ last.form = "str"
    /\ last.arg.wellformed
    /\ ~last.arg.stored
    /\ last.exc = "none"
    /\ last.ret = <<>>
    /\ Len(data) > 0

\* C10: get_measure returns, for each of "euclidean", "dot" and "cosine",
\* the instance the registry was built with, raises for another name a
\* ValueError made of the name asked for and the registered names, and no
\* step changes the registry.
C10_GetMeasurePureLookup ==
    [][/\ MEASURES' = MEASURES
       /\ last'.op = "get_measure" =>
            IF last'.arg.name \in {<<"euclidean">>, <<"dot">>, <<"cosine">>}
            THEN /\ last'.exc = "none"
                 /\ last'.ret = DictGet(MeasureFactory_MEASURES, last'.arg.name)
            ELSE /\ last'.exc = "ValueError"
                 /\ last'.arg.msg.name = last'.arg.name
                 /\ last'.arg.msg.keys = <<<<"euclidean">>, <<"dot">>, <<"cosine">>>>]_vars

\* a registered measure has been looked up after a search by name
C10_Witness ==
    /\ last.op = "get_measure"
    /\ last.arg.name = <<"cosine">>
    /\ last.exc = "none"
    /\ last.ret # <<>>
    /\ last.ret[1].t = "CosineSimilarity"
    /\ Len(data) > 0

\* the stored vectors that match the query of the last sim_search exactly:
\* the query itself when it was given as a Vector, every stored vector with
\* the query's embedding when it was given as a raw sequence
ExactMatches ==
    {vec \in StoredVectors :
        /\ vec.embedding = last.arg.q
        /\ last.form = "Vector" => vec.vec_id = last.arg.qid}

EuclideanK1 ==
    /\ last.op = "sim_search"
    /\ last.form \in {"Vector", "list"}
    /\ last.arg.mform = "str"
    /\ last.arg.measure = <<Measure("EuclideanDistance", 1)>>
    /\ last.arg.k = 1

\* C11 (as claimed): a sim_search with measure "euclidean" and k = 1 on a
\* store that holds the query vector itself returns that stored vector as
\* the only result, with score 0, whatever else the store holds.
C11_ExactMatchFirst ==
    EuclideanK1 =>
        \A vec \in ExactMatches :
            /\ last.exc = "none"
            /\ last.ret = <<[vector |-> vec, score |-> Real(0, 1)]>>

\* C11 (amended): such a search returns one result with score 0: of the
\* stored vectors whose embedding is the query's, the one that stands first
\* in the store's insertion order.
C11_ExactMatchFirstInserted ==
    (EuclideanK1 /\ ExactMatches # {}) =>
        /\ last.exc = "none"
        /\ Len(last.ret) = 1
        /\ last.ret[1].score = Real(0, 1)
        /\ \E i \in 1 .. Len(data) :
              /\ last.ret[1].vector = data[i].v
              /\ data[i].v.embedding = last.arg.q
              /\ \A j \in 1 .. (i - 1) : data[j].v.embedding # last.arg.q

\* the query is the second vector of the store, the first has another
\* embedding, and the search has returned the second
C11_Witness ==
    /\ EuclideanK1
    /\ last.form = "Vector"
    /\ Len(data) = 2
    /\ data[2].k = last.arg.qid
    /\ data[1].v.embedding # last.arg.q
    /\ last.ret = <<[vector |-> data[2].v, score |-> Real(0, 1)]>>

IsZero(embedding) == \A i \in 1 .. Len(embedding) : embedding[i] = 0

\* C12 (as claimed): the cosine measure guards against a zero-norm operand:
\* a sim_search by cosine whose query or one of whose candidates has an
\* all-zero embedding either fails with an error or scores every candidate
\* with a defined number; no nan score is computed, ordered or returned.
C12_CosineZeroNormGuard ==
    (/\ last.op = "sim_search"
     /\ last.form \in {"Vector", "list"}
     /\ Len(last.arg.q) = vector_dim
     /\ last.arg.measure = <<Measure("CosineSimilarity", 3)>>
     /\ \/ IsZero(last.arg.q)
        \/ \E vec \in StoredVectors : IsZero(vec.embedding))
    => \/ last.exc # "none"
       \/ /\ \A i \in 1 .. Len(last.ret) : ~last.ret[i].score.nan
          /\ \A vec \in StoredVectors :
                ~CosineSimilarity_calculate(Vector(last.arg.q, NoAttr), vec).score.nan

\* C13 (as claimed): a bulk_upsert of a list whose elements are all Vectors
\* or raw sequences of the database's dimension succeeds, and afterwards
\* the store holds its elements, a raw sequence as a Vector with that
\* embedding (the raw sequences given are Ones(vector_dim)).
C13_BulkUpsertAcceptsRaw ==
    (/\ last.op = "bulk_upsert"
     /\ last.form = "list"
     /\ ~last.arg.invalid)
    => /\ last.exc = "none"
       /\ last.arg.len > 0 => Len(data) > 0
       /\ last.arg.raw =>
            \E vec \in StoredVectors : vec.embedding = Ones(vector_dim)

\* C14: fit given a list whose every element is a str or a TextDoc hands
\* _fit, once, a list of the same length and order in which each string is
\* wrapped into a TextDoc and each TextDoc is the one given; given anything
\* else, or a list with an element of another type, it raises TypeError
\* and _fit is not called.
C14_FitNormalizes ==
    last.op = "fit" =>
        LET docs == last.arg.docs
        IN  IF /\ docs.t = "list"
               /\ \A i \in 1 .. Len(docs.embedding) : docs.embedding[i].t \in TextLike
            THEN /\ last.exc = "none"
                 /\ Len(last.arg.hook) = 1
                 /\ last.arg.hook[1].t = "list"
                 /\ Len(last.arg.hook[1].embedding) = Len(docs.embedding)
                 /\ \A i \in 1 .. Len(docs.embedding) :
                       last.arg.hook[1].embedding[i] =
                           IF docs.embedding[i].t = "str"
                           THEN TextDoc(docs.embedding[i].chars)
                           ELSE docs.embedding[i]
            ELSE /\ last.exc = "TypeError"
                 /\ last.arg.hook = <<>>

\* fit has been given a TextDoc followed by a string and has handed _fit
\* two TextDocs
C14_Witness ==
    /\ last.op = "fit"
    /\ last.arg.docs = PyList(<<TextDoc(<<"ABC">>), PyStr(<<"DEF">>)>>)
    /\ last.exc = "none"
    /\ last.arg.hook = <<PyList(<<TextDoc(<<"ABC">>), TextDoc(<<"DEF">>)>>)>>

\* C15 (as claimed): decode given a TextDocEmbedded calls the subclass's
\* _decode with it and returns its result; given anything else it raises
\* TypeError and _decode is not called.
C15_DecodeAcceptsEmbedded ==
    last.op = "decode" =>
        IF last.arg.docs.t = "TextDocEmbedded"
        THEN /\ last.exc = "none"
             /\ last.arg.hook = <<last.arg.docs>>
             /\ last.ret = <<TestAbstractEmbedder_decode(last.arg.docs)>>
        ELSE /\ last.exc = "TypeError"
             /\ last.arg.hook = <<>>

\* C16: an upsert of a Vector of the database's dimension succeeds; the
\* store then holds the given vector under its id, has one entry more if
\* the id was not stored and as many as before if it was, and holds under
\* every other id what it held; upserting the same Vector once more
\* changes nothing.
C16_UpsertInsertOrReplace ==
    [][(/\ last'.op = "upsert"
        /\ last'.form = "Vector"
        /\ last'.arg.dim = vector_dim)
       => LET id == last'.arg.id
              given == Vector(upserted'[id], id)
          IN  /\ last'.exc = "none"
              /\ DictGet(data', id) = <<given>>
              /\ DictKeys(data') = DictKeys(data) \cup {id}
              /\ Len(data') = (IF id \in DictKeys(data) THEN Len(data)
                                ELSE Len(data) + 1)
              /\ \A j \in DictKeys(data) \ {id} : DictGet(data', j) = DictGet(data, j)
              /\ upsert(data', vector_dim, given, NoAttr) = Outcome("none", <<>>, data')]_vars

\* the last upsert has replaced the vector under the first of two stored
\* identifiers
C16_Witness ==
    /\ last.op = "upsert"
    /\ last.form = "Vector"
    /\ last.exc = "none"
    /\ Len(data) = 2
    /\ data[1].k = last.arg.id
    /\ data[1].v.embedding # data[2].v.embedding

\* C17 (as claimed): a delete of a stored vector, given as the Vector, its
\* identifier or the identifier's string form, succeeds and removes the
\* entry under that id and no other: the store has one entry less, a
\* get_vector of the id then returns None, a second delete of the same
\* target returns without effect, and the entries under the other ids are
\* as they were.
C17_DeleteStored ==
    [][(/\ last'.op = "delete"
        /\ last'.form \in {"Vector", "UUID", "str"}
        /\ last'.arg.stored)
       => /\ last'.exc = "none"
          /\ Len(data') = Len(data) - 1
          /\ \E id \in DictKeys(data) :
                LET again == IF last'.form = "Vector" THEN DictGet(data, id)[1]
                             ELSE IF last'.form = "UUID" THEN PyUUID(id)
                             ELSE PyStr(UUIDStr(id))
                IN  /\ DictKeys(data') = DictKeys(data) \ {id}
                    /\ \A j \in DictKeys(data') : DictGet(data', j) = DictGet(data, j)
                    /\ get_vector(data', PyUUID(id)) = Outcome("none", <<>>, data')
                    /\ delete(data', again) = Outcome("none", <<>>, data')]_vars

\* x = y on floats
Eq(x, y) == ~x.nan /\ ~y.nan /\ x.sq * y.den = y.sq * x.den

\* C18 (as claimed): ties in sim_search follow the store's history.  The
\* store keeps its entries in the order in which their ids were most
\* recently newly inserted (a replaced entry keeps its place, a deleted and
\* re-inserted one goes last); of two stored vectors with equal sort keys
\* the one that stands earlier in that order comes first in the result,
\* and is the one returned when only one of them is within the first k.
C18_TiesFollowInsertionOrder ==
    (/\ last.op = "sim_search"
     /\ last.exc = "none")
    => /\ \A i, j \in 1 .. Len(last.ret) :
            (i < j /\ Eq(KeyOf(last.ret[i].vector), KeyOf(last.ret[j].vector)))
            => DictIndex(data, last.ret[i].vector.vec_id)
                 < DictIndex(data, last.ret[j].vector.vec_id)
       /\ \A i \in 1 .. Len(last.ret) :
            \A vec \in StoredVectors \ {last.ret[j].vector : j \in 1 .. Len(last.ret)} :
                Eq(KeyOf(vec), KeyOf(last.ret[i].vector))
                => DictIndex(data, last.ret[i].vector.vec_id)
                     < DictIndex(data, vec.vec_id)

====
